---- MODULE Spec2Model ----
(***************************************************************************)
(* The gradient renderer of src/main.rs: a 256 x 256 RGB buffer is filled  *)
(* pixel by pixel from its coordinates with IEEE-754 binary64 arithmetic,  *)
(* saved as image.png, and the outcome of the save is reported.            *)
(*                                                                         *)
(* binary64 values are kept exactly: a non-negative finite value is a      *)
(* record [m, e] that stands for m * 2^e, where m is a 53-bit significand  *)
(* held as a little-endian sequence of 15-bit limbs (TLC's integers are    *)
(* 32 bits wide).  Division, multiplication and the decimal literals round *)
(* to nearest, ties to even, as the hardware and rustc do.                 *)
(***************************************************************************)
EXTENDS Integers, Sequences, FiniteSets, TLC

-----------------------------------------------------------------------------
(* Unbounded naturals as little-endian limb sequences *)

Base == 2^15

RECURSIVE IntBitLen(_)
IntBitLen(n) == IF n = 0 THEN 0 ELSE 1 + IntBitLen(n \div 2)

LimbBits == IntBitLen(Base) - 1

RECURSIVE BigNorm(_)
BigNorm(a) ==
    IF a = <<>> THEN <<>>
    ELSE IF a[Len(a)] = 0 THEN BigNorm(SubSeq(a, 1, Len(a) - 1))
    ELSE a

RECURSIVE BigFromInt(_)
BigFromInt(n) ==
    IF n = 0 THEN <<>> ELSE <<n % Base>> \o BigFromInt(n \div Base)

RECURSIVE BigToInt(_)
BigToInt(a) ==
    IF a = <<>> THEN 0 ELSE a[1] + Base * BigToInt(Tail(a))

RECURSIVE MulSmallCarry(_, _, _)
MulSmallCarry(a, k, c) ==
    IF a = <<>> THEN BigFromInt(c)
    ELSE LET t == a[1] * k + c
         IN  <<t % Base>> \o MulSmallCarry(Tail(a), k, t \div Base)

BigMulSmall(a, k) == BigNorm(MulSmallCarry(a, k, 0))

RECURSIVE AddCarry(_, _, _)
AddCarry(a, b, c) ==
    IF a = <<>> /\ b = <<>> THEN BigFromInt(c)
    ELSE LET x == IF a = <<>> THEN 0 ELSE a[1]
             y == IF b = <<>> THEN 0 ELSE b[1]
             t == x + y + c
         IN  <<t % Base>> \o AddCarry(IF a = <<>> THEN <<>> ELSE Tail(a),
                                      IF b = <<>> THEN <<>> ELSE Tail(b),
                                      t \div Base)

BigAdd(a, b) == BigNorm(AddCarry(a, b, 0))

RECURSIVE BigMul(_, _)
BigMul(a, b) ==
    IF b = <<>> THEN <<>>
    ELSE BigAdd(BigMulSmall(a, b[1]),
                LET r == BigMul(a, Tail(b))
                IN  IF r = <<>> THEN <<>> ELSE <<0>> \o r)

BigBitLen(a) ==
    LET n == BigNorm(a)
    IN  IF n = <<>> THEN 0
        ELSE LimbBits * (Len(n) - 1) + IntBitLen(n[Len(n)])

BigBit(a, i) ==
    IF i \div LimbBits + 1 > Len(a) THEN 0
    ELSE (a[i \div LimbBits + 1] \div 2^(i % LimbBits)) % 2

\* <<quotient, remainder>> of the limbs a[1..i] by d, most significant limb
\* first, with r the remainder carried in from above
RECURSIVE DivSmallFrom(_, _, _, _)
DivSmallFrom(a, d, i, r) ==
    IF i = 0 THEN <<<<>>, r>>
    ELSE LET t    == r * Base + a[i]
             rest == DivSmallFrom(a, d, i - 1, t % d)
         IN  <<Append(rest[1], t \div d), rest[2]>>

BigDivSmall(a, d) ==
    LET qr == DivSmallFrom(a, d, Len(a), 0) IN <<BigNorm(qr[1]), qr[2]>>

\* floor(a / 2^t)
BigShr(a, t) ==
    LET w    == t \div LimbBits
        kept == IF w >= Len(a) THEN <<>> ELSE SubSeq(a, w + 1, Len(a))
    IN  BigDivSmall(kept, 2^(t % LimbBits))[1]

\* a * 2^t
BigShl(a, t) ==
    IF a = <<>> THEN <<>>
    ELSE [i \in 1..(t \div LimbBits) |-> 0] \o BigMulSmall(a, 2^(t % LimbBits))

\* a mod 2^t = 0
BigLowZero(a, t) == \A i \in 0..(t - 1) : BigBit(a, i) = 0

\* the index of the lowest set bit of a, looked for from bit i up
RECURSIVE LowestBitFrom(_, _)
LowestBitFrom(a, i) ==
    IF BigBit(a, i) = 1 THEN i ELSE LowestBitFrom(a, i + 1)

TrailingZeros(a) == LowestBitFrom(a, 0)

-----------------------------------------------------------------------------
(* binary64 *)

MantBits == 53

U8Max == 2^8 - 1

F64Zero == [m |-> <<>>, e |-> 0]

\* M * 2^E rounded to a 53-bit significand, to nearest, ties to even
F64Round(M, E) ==
    LET L == BigBitLen(M)
    IN  IF L = 0 THEN F64Zero
        ELSE IF L <= MantBits
             THEN [m |-> BigShl(M, MantBits - L), e |-> E - (MantBits - L)]
        ELSE LET t  == L - MantBits
                 Q  == BigShr(M, t)
                 up == /\ BigBit(M, t - 1) = 1
                       /\ (~BigLowZero(M, t - 1) \/ BigBit(Q, 0) = 1)
                 Q1 == IF up THEN BigAdd(Q, <<1>>) ELSE Q
             IN  IF BigBitLen(Q1) > MantBits
                 THEN [m |-> BigShr(Q1, 1), e |-> E + t + 1]
                 ELSE [m |-> Q1, e |-> E + t]

\* (N * 2^E) / d correctly rounded, for a positive divisor d below Base: the
\* quotient is taken to more than 53 + 2 bits and a sticky bit is appended
RoundDiv(N, E, d) ==
    LET s  == 5 * LimbBits
        qr == BigDivSmall(BigShl(N, s), d)
        M  == BigAdd(BigShl(qr[1], 1), IF qr[2] = 0 THEN <<>> ELSE <<1>>)
    IN  F64Round(M, E - s - 1)

\* `n as f64` of an unsigned integer n: exact below 2^53
F64FromU32(n) == F64Round(BigFromInt(n), 0)

\* a / b for a divisor whose odd part is below Base
F64Div(a, b) ==
    IF a.m = <<>> THEN F64Zero
    ELSE LET k == TrailingZeros(b.m)
         IN  RoundDiv(a.m, a.e - b.e - k, BigToInt(BigShr(b.m, k)))

F64Mul(a, b) ==
    IF a.m = <<>> \/ b.m = <<>> THEN F64Zero
    ELSE F64Round(BigMul(a.m, b.m), a.e + b.e)

\* the decimal literal digits * 10^-scale, as rustc parses it (correctly
\* rounded)
F64Lit(digits, scale) == RoundDiv(BigFromInt(digits), -scale, 5^scale)

\* the integer part of a value, which is below 2^31
F64Trunc(a) ==
    IF a.m = <<>> \/ -a.e >= MantBits THEN 0
    ELSE BigToInt(BigShr(a.m, -a.e))

\* `a as u8`: truncation toward zero, saturating at 255
F64ToU8(a) ==
    IF a.m = <<>> THEN 0
    ELSE IF a.e >= 0 THEN U8Max
    ELSE IF -a.e >= MantBits THEN 0
    ELSE IF BigBitLen(BigShr(a.m, -a.e)) > 8 THEN U8Max
    ELSE F64Trunc(a)

-----------------------------------------------------------------------------
(* The program *)

VARIABLES
    run,        \* number of this run of the program
    pc,         \* "fill", "save", "match", "return", "exited"
    buffer,     \* the RgbImage
    result,     \* what buffer.save returned
    saveCalls,  \* calls of buffer.save in this run
    stdout,     \* lines printed by println!
    stderr,     \* lines printed by eprintln!
    exitCode,   \* "running" until main returns
    disk,       \* image.png; it outlives the run
    handed      \* the buffer the latest call of save was given

vars == <<run, pc, buffer, result, saveCalls, stdout, stderr, exitCode,
          disk, handed>>

IMAGE_WIDTH == 256
IMAGE_HEIGHT == 256

\* how many times the program is run, one run after the other
MaxRuns == 3

\* the literal 255.999
Multiplier == F64Lit(255999, 3)

\* a variant of Quantize: the multiplier 256.0 and a conversion that does not
\* saturate
QuantizeBy256(c) == F64Trunc(F64Mul(F64FromU32(256), c))

\* (255.999 * c) as u8
Quantize(c) == F64ToU8(F64Mul(Multiplier, c))

\* a variant of Red: normalised by the width, not by the last column
RedByWidth(x) == F64ToU8(F64Mul(F64Lit(255999, 3),
                                F64Div(F64FromU32(x), F64FromU32(IMAGE_WIDTH))))

\* a variant of Red: the gradient runs from right to left
RedFlipped(x) ==
    F64ToU8(F64Mul(F64Lit(255999, 3),
                   F64Div(F64FromU32(IMAGE_WIDTH - 1 - x),
                          F64FromU32(IMAGE_WIDTH - 1))))

\* let r = x as f64 / (IMAGE_WIDTH-1) as f64;  let ir = (255.999 * r) as u8;
Red(x) == Quantize(F64Div(F64FromU32(x), F64FromU32(IMAGE_WIDTH - 1)))

\* a variant of Green: normalised by the height, not by the last row
GreenByHeight(y) ==
    F64ToU8(F64Mul(F64Lit(255999, 3),
                   F64Div(F64FromU32(y), F64FromU32(IMAGE_HEIGHT))))

\* let g = y as f64 / (IMAGE_HEIGHT-1) as f64;  let ig = (255.999 * g) as u8;
Green(y) == Quantize(F64Div(F64FromU32(y), F64FromU32(IMAGE_HEIGHT - 1)))

\* a variant of Blue: b is taken from a value that differs from run to run
BlueSeeded == 62 + run

\* a variant of Blue: b = 0.5
BlueHalf == F64ToU8(F64Mul(F64Lit(255999, 3), F64Lit(5, 1)))

\* let b = 0.25;  let ib = (255.999 * b) as u8;
Blue == Quantize(F64Lit(25, 2))

\* ir and ig depend on one coordinate each: they are computed once per
\* coordinate value and looked up by the loop body
RedOf == [x \in 0..(IMAGE_WIDTH - 1) |-> Red(x)]
GreenOf == [y \in 0..(IMAGE_HEIGHT - 1) |-> Green(y)]

\* the loop body: the pixel stored at (x, y)
Shade(x, y) == <<RedOf[x], GreenOf[y], Blue>>

\* An image is the sequence of its rows, top row first, and a row is the
\* sequence of its pixels, leftmost first.
\* ImageBuffer::new: every subpixel is zero
NewBuffer ==
    [j \in 1..IMAGE_HEIGHT |-> [i \in 1..IMAGE_WIDTH |-> <<0, 0, 0>>]]

\* row y of an image, and the pixel at x in a row
Row(buf, y) == buf[y + 1]
At(r, x) == r[x + 1]

\* get_pixel(x, y)
Pixel(buf, x, y) == At(Row(buf, y), x)

\* a variant of Render: the last row is not reached
RenderShort ==
    [j \in 1..IMAGE_HEIGHT |->
        [i \in 1..IMAGE_WIDTH |->
            IF j < IMAGE_HEIGHT THEN Shade(i - 1, j - 1) ELSE <<0, 0, 0>>]]

\* the for loop: enumerate_pixels_mut yields every position (x, y) of the
\* buffer once, and the body stores Shade(x, y) there
Render ==
    [j \in 1..IMAGE_HEIGHT |-> [i \in 1..IMAGE_WIDTH |-> Shade(i - 1, j - 1)]]

\* contents of image.png
Absent == [kind |-> "absent", width |-> 0, height |-> 0, pixels |-> <<>>]
Stale == [kind |-> "other", width |-> 0, height |-> 0, pixels |-> <<>>]
Partial == [kind |-> "partial", width |-> 0, height |-> 0, pixels |-> <<>>]
EncodePng(buf) ==
    [kind |-> "png-rgb8", width |-> IMAGE_WIDTH, height |-> IMAGE_HEIGHT,
     pixels |-> buf]

\* descriptions of the errors save can return
Errors == {"Permission denied (os error 13)",
           "Is a directory (os error 21)",
           "No space left on device (os error 28)"}

NoResult == [tag |-> "none", e |-> ""]
Ok == [tag |-> "Ok", e |-> ""]
Err(e) == [tag |-> "Err", e |-> e]

Init ==
    /\ run = 1
    /\ pc = "fill"
    /\ buffer = NewBuffer
    /\ result = NoResult
    /\ saveCalls = 0
    /\ stdout = <<>>
    /\ stderr = <<>>
    /\ exitCode = "running"
    /\ disk \in {Absent, Stale}
    /\ handed = <<>>

\* the for loop over enumerate_pixels_mut, from the first pixel to the last
Fill ==
    /\ pc = "fill"
    /\ buffer' = Render
    /\ pc' = "save"
    /\ UNCHANGED <<run, result, saveCalls, stdout, stderr, exitCode, disk,
                   handed>>

\* buffer.save("image.png") returns Ok(()): the file holds the encoded buffer
SaveOk ==
    /\ pc = "save"
    /\ disk' = EncodePng(buffer)
    /\ result' = Ok
    /\ handed' = buffer
    /\ saveCalls' = saveCalls + 1
    /\ pc' = "match"
    /\ UNCHANGED <<run, buffer, stdout, stderr, exitCode>>

\* buffer.save("image.png") returns Err(e): the file was not opened, or it was
\* created and not written to the end
SaveErr ==
    /\ pc = "save"
    /\ \E e \in Errors, d \in {disk, Partial} :
          /\ result' = Err(e)
          /\ disk' = d
    /\ handed' = buffer
    /\ saveCalls' = saveCalls + 1
    /\ pc' = "match"
    /\ UNCHANGED <<run, buffer, stdout, stderr, exitCode>>

\* a variant of ReportErr: the error is unwrapped, and the panic ends the
\* process with a failure status
ReportErrPanic ==
    /\ pc = "match"
    /\ result.tag = "Err"
    /\ stderr' = Append(stderr, "thread 'main' panicked: " \o result.e)
    /\ pc' = "exited"
    /\ exitCode' = "failure"
    /\ UNCHANGED <<run, buffer, result, saveCalls, stdout, disk, handed>>

\* Err(e) => eprintln!("Error writing file: {}", e)
ReportErr ==
    /\ pc = "match"
    /\ result.tag = "Err"
    /\ stderr' = Append(stderr, "Error writing file: " \o result.e)
    /\ pc' = "return"
    /\ UNCHANGED <<run, buffer, result, saveCalls, stdout, exitCode, disk,
                   handed>>

\* a variant of ReportOk: the arm matches every result
ReportAlways ==
    /\ pc = "match"
    /\ stdout' = Append(stdout, "Done.")
    /\ pc' = "return"
    /\ UNCHANGED <<run, buffer, result, saveCalls, stderr, exitCode, disk,
                   handed>>

\* Ok(()) => println!("Done.")
ReportOk ==
    /\ pc = "match"
    /\ result.tag = "Ok"
    /\ stdout' = Append(stdout, "Done.")
    /\ pc' = "return"
    /\ UNCHANGED <<run, buffer, result, saveCalls, stderr, exitCode, disk,
                   handed>>

\* main returns ()
Exit ==
    /\ pc = "return"
    /\ pc' = "exited"
    /\ exitCode' = "success"
    /\ UNCHANGED <<run, buffer, result, saveCalls, stdout, stderr, disk,
                   handed>>

\* the program is started again: a new process, the same disk
Rerun ==
    /\ pc = "exited"
    /\ run < MaxRuns
    /\ run' = run + 1
    /\ pc' = "fill"
    /\ buffer' = NewBuffer
    /\ result' = NoResult
    /\ saveCalls' = 0
    /\ stdout' = <<>>
    /\ stderr' = <<>>
    /\ exitCode' = "running"
    /\ UNCHANGED <<disk, handed>>

Next ==
    \/ Fill
    \/ SaveOk
    \/ SaveErr
    \/ ReportErr
    \/ ReportOk
    \/ Exit
    \/ Rerun

Spec == Init /\ [][Next]_vars

-----------------------------------------------------------------------------
(* Properties *)

\* largest denominator of the normalised channel values n / d tried on Quantize
MaxDen == 12

Columns == 0..255
Rows == 0..255

\* floor(n / d * 255.999) in exact arithmetic
RealQuantize(n, d) == (n * 255999) \div (d * 1000)

\* the image of the real-valued formula: row y + 1 holds at x + 1 the pixel
\* (floor(x/255 * 255.999), floor(y/255 * 255.999), floor(0.25 * 255.999))
RealImage ==
    [j \in 1..256 |->
        [i \in 1..256 |->
            <<RealQuantize(i - 1, 255), RealQuantize(j - 1, 255),
              RealQuantize(25, 100)>>]]

\* Fill is over: the loop has been left
Filled == pc \in {"save", "match", "return", "exited"}

\* C1: after Fill, the pixel at every (x, y) with 0 <= x, y < 256 is
\* (floor(x/255 * 255.999), floor(y/255 * 255.999), floor(0.25 * 255.999)),
\* the quotients and products taken over the reals, and the blue value is 63
C1_PixelsAreRealFloor ==
    Filled =>
        /\ RealQuantize(25, 100) = 63
        /\ buffer = RealImage

C1_Witness ==
    /\ pc = "save"
    /\ run = 1
    /\ Pixel(buffer, 77, 128) =
           <<RealQuantize(77, 255), RealQuantize(128, 255), 63>>

\* C2: a run whose save failed has printed exactly one line on the error
\* stream, "Error writing file: " followed by the description of the error
\* that save returned, it has called save once, and it ends with main
\* returning normally; a failed save never leaves the program stuck
C2_FailureIsReported ==
    /\ Len(stderr) <= 1
    /\ saveCalls <= 1
    /\ result.tag = "Err" =>
          /\ result.e \in Errors
          /\ saveCalls = 1
          /\ pc \in {"match", "return", "exited"}
          /\ pc = "match" => stderr = <<>> /\ ENABLED ReportErr
          /\ pc = "return" => ENABLED Exit
          /\ pc \in {"return", "exited"} =>
                stderr = <<"Error writing file: " \o result.e>>
          /\ pc = "exited" => exitCode = "success"

C2_Witness ==
    /\ pc = "exited"
    /\ result = Err("No space left on device (os error 28)")
    /\ stderr = <<"Error writing file: No space left on device (os error 28)">>
    /\ exitCode = "success"
    /\ disk = Partial
    /\ run = 1

\* C3: "Done." is printed on standard output once in a run whose save
\* succeeded, only after save returned Ok, and never in a run whose save
\* failed; a run that has ended has printed exactly one of the two messages
C3_DoneOnlyOnSuccess ==
    /\ Len(stdout) + Len(stderr) <= 1
    /\ stdout # <<>> =>
          /\ stdout = <<"Done.">>
          /\ result = Ok
          /\ pc \in {"return", "exited"}
    /\ pc \in {"return", "exited"} =>
          /\ Len(stdout) + Len(stderr) = 1
          /\ result = Ok => stdout = <<"Done.">> /\ stderr = <<>>
          /\ result.tag = "Err" => stdout = <<>> /\ Len(stderr) = 1

C3_Witness ==
    /\ pc = "exited"
    /\ run = 1
    /\ result = Ok
    /\ stdout = <<"Done.">>
    /\ stderr = <<>>
    /\ disk.kind = "png-rgb8"

\* C4: after Fill, pixel (0,0) = (0, 0, 63), pixel (255,0) = (255, 0, 63),
\* pixel (0,255) = (0, 255, 63) and pixel (255,255) = (255, 255, 63)
C4_Corners ==
    Filled =>
        /\ Pixel(buffer, 0, 0) = <<0, 0, 63>>
        /\ Pixel(buffer, 255, 0) = <<255, 0, 63>>
        /\ Pixel(buffer, 0, 255) = <<0, 255, 63>>
        /\ Pixel(buffer, 255, 255) = <<255, 255, 63>>

C4_Witness ==
    /\ pc = "match"
    /\ Pixel(buffer, 0, 0)[3] = 63
    /\ Pixel(buffer, 255, 0)[1] = 255
    /\ Pixel(buffer, 0, 255)[2] = 255

InU8(p) == p[1] \in 0..255 /\ p[2] \in 0..255 /\ p[3] \in 0..255

C6_Monotone ==
    Filled =>
        /\ \A y \in Rows :
              LET r == Row(buffer, y)
              IN  \A x \in 0..254 : At(r, x)[1] <= At(r, x + 1)[1]
        /\ \A y \in 0..254 :
              LET r == Row(buffer, y)
                  s == Row(buffer, y + 1)
              IN  \A x \in Columns : At(r, x)[2] <= At(s, x)[2]

C6_Witness ==
    /\ pc = "return"
    /\ Pixel(buffer, 10, 3)[1] < Pixel(buffer, 200, 3)[1]
    /\ Pixel(buffer, 3, 10)[2] < Pixel(buffer, 3, 200)[2]

\* C7: in the filled buffer the blue channel of every pixel is 63
C7_BlueIs63 ==
    Filled =>
        \A y \in Rows :
            LET r == Row(buffer, y) IN \A x \in Columns : At(r, x)[3] = 63

C7_Witness ==
    /\ pc = "exited"
    /\ Pixel(buffer, 200, 17)[3] = 63
    /\ Pixel(buffer, 17, 200)[3] = 63

C9_FillThenSave ==
    /\ [](pc = "save" =>
            \A y \in Rows :
                LET r == Row(buffer, y)
                IN  \A x \in Columns : At(r, x) # <<0, 0, 0>>)
    /\ [](pc \in {"match", "return", "exited"} => buffer = handed)
    /\ [][run' = run /\ buffer' # buffer =>
            /\ pc = "fill" /\ pc' = "save"
            /\ buffer = NewBuffer]_vars

C9_Witness ==
    /\ pc = "exited"
    /\ saveCalls = 1
    /\ handed = buffer
    /\ Pixel(buffer, 255, 255) # <<0, 0, 0>>

\* C10: for 256 x 256 the stored red channel is x and the stored green
\* channel is y at every (x, y) with 0 <= x, y < 256
C10_Identity ==
    Filled =>
        \A y \in Rows :
            LET r == Row(buffer, y)
            IN  \A x \in Columns : At(r, x)[1] = x /\ At(r, x)[2] = y

C10_Witness ==
    /\ pc = "save"
    /\ run = 2
    /\ Pixel(buffer, 200, 100) = <<200, 100, 63>>

====
